---- MODULE Spec2Model ----
(***************************************************************************)
(* A model of the chunked download pipeline of SAR_Processing:             *)
(*   - download_product of app.py / copernicus_hub.py (the orchestrator:   *)
(*     directory, sanitised name, existing-file skip, write test,          *)
(*     redirects, HEAD size probe, disk-space guard, streaming to a .part  *)
(*     file, rename, cleanup);                                             *)
(*   - the worker variants of download_handler.py, backend.py and          *)
(*     frontend.py, which stream straight to the final path.               *)
(*                                                                         *)
(* The file system is one destination directory (dirExists) and a function *)
(* from path to content (files).  A path and a product name are sequences  *)
(* of character tokens; a content is a sequence of bytes.  The HTTP server,*)
(* the disk probe and I/O errors are the environment: every response       *)
(* header, chunk, free-space value and exception is a nondeterministic     *)
(* choice in the step that consumes it.  The progress sink                 *)
(* (status_placeholder / progress_placeholder) is taken never to raise.    *)
(*                                                                         *)
(* Arithmetic: the code computes progress = (downloaded / total) * 100 and *)
(* total * 1.2 in binary floating point; the model keeps progress as the   *)
(* exact fraction (downloaded * 100) / total and compares 5 * free with    *)
(* 6 * total.                                                              *)
(***************************************************************************)
EXTENDS Integers, Sequences, FiniteSets, TLC

(***************************************************************************)
(* Bounds of the model.                                                    *)
(***************************************************************************)
\* chunk reads of one transfer (empty chunks included)
MaxChunks == 3
\* bytes in one chunk
MaxChunkLen == 2
\* small Content-Length values: 0 (absent) .. MaxSize
MaxSize == 3
\* small free-space values: 0 .. MaxFree
MaxFree == 2
\* redirects of an ordinary, finite chain
MaxRedirects == 1
\* characters in a product name of the sanitisation specification
MaxNameLen == 3

Procs == {1, 2}

(***************************************************************************)
(* Program constants.                                                      *)
(***************************************************************************)
\* app.py:166  while response.status in (301, 302, 303, 307)
RedirectCodes == {301, 302, 303, 307}
\* app.py:196  total_size < 200 * 1024 * 1024
MirrorThreshold == 200 * 1024 * 1024
\* spec 4.1: the hop bound an implementation is to configure (e.g. 10)
RedirectHopBound == 10

\* a redirect chain longer than the hop bound: what a redirect cycle looks
\* like to a resolver for its first RedirectHopBound + 1 requests
LongChain == RedirectHopBound + 1

OutputDir == "output_dir"
ZipExt == <<".zip">>
PartExt == <<".part">>
WriteTestName == <<".write_test">>

(***************************************************************************)
(* Characters.  A token is one character; "TAB" is a whitespace character  *)
(* other than the space, "U+00E9" a non-ASCII letter (e acute), "U+0663" a *)
(* non-ASCII decimal digit (Arabic-Indic three).                           *)
(***************************************************************************)
AsciiAlnum == {"a", "Z", "7"}
UnicodeAlnum == {"U+00E9", "U+0663"}
Punct == {" ", "-", "_", "."}
Dropped == {"/", "*", "TAB"}
NameChars == AsciiAlnum \cup UnicodeAlnum \cup Punct \cup Dropped

\* str.isalnum(): true of every Unicode letter and digit
IsAlnum(c) == c \in AsciiAlnum \cup UnicodeAlnum

\* str.isspace(): what str.strip() removes
IsSpace(c) == c \in {" ", "TAB"}

\* app.py:140  c.isalnum() or c in (' ', '-', '_', '.')
KeepsSlash(c) == IsAlnum(c) \/ c \in {" ", "-", "_", ".", "/"}
Kept(c) == IsAlnum(c) \/ c \in {" ", "-", "_", "."}

\* "".join(c for c in product_name if ...)
RECURSIVE Filter(_)
Filter(s) ==
  IF s = <<>> THEN <<>>
  ELSE IF Kept(Head(s)) THEN <<Head(s)>> \o Filter(Tail(s))
       ELSE Filter(Tail(s))

RECURSIVE LStrip(_)
LStrip(s) ==
  IF s = <<>> THEN <<>>
  ELSE IF IsSpace(Head(s)) THEN LStrip(Tail(s)) ELSE s

RECURSIVE RStrip(_)
RStrip(s) ==
  IF s = <<>> THEN <<>>
  ELSE IF IsSpace(s[Len(s)]) THEN RStrip(SubSeq(s, 1, Len(s) - 1)) ELSE s

\* str.strip()
Strip(s) == RStrip(LStrip(s))

\* app.py:140  clean_name
SanitizeStripOnly(name) == Strip(name)
Sanitize(name) == Strip(Filter(name))

\* os.path.join(output_dir, filename)
OsPathJoin(dir, filename) == <<dir, "/">> \o filename

\* app.py:141  output_path = os.path.join(output_dir, f"{clean_name}.zip")
OutputPathOf(clean) == OsPathJoin(OutputDir, clean \o ZipExt)

\* app.py:191  temp_file_path = output_path + ".part"
SharedTempPath(path) == OsPathJoin(OutputDir, <<"download">> \o PartExt)
TempPathOf(path) == path \o PartExt

\* app.py:151  test_file = os.path.join(output_dir, ".write_test")
TestFile == OsPathJoin(OutputDir, WriteTestName)

(***************************************************************************)
(* The file system.                                                        *)
(***************************************************************************)
EmptyFs == [f \in {} |-> <<>>]

\* os.path.exists(path)
PathExists(fs, path) == path \in DOMAIN fs

\* the file at path created or replaced, holding content
WriteFile(fs, path, content) ==
  [f \in DOMAIN fs \cup {path} |-> IF f = path THEN content ELSE fs[f]]

\* os.remove(path)
RemoveFile(fs, path) == [f \in DOMAIN fs \ {path} |-> fs[f]]

\* os.rename(src, dst)
RenameFile(fs, src, dst) == RemoveFile(WriteFile(fs, dst, fs[src]), src)

\* open(path, 'wb'): the file created, or truncated when it exists
OpenAppend(fs, path) ==
  WriteFile(fs, path, IF PathExists(fs, path) THEN fs[path] ELSE <<>>)
OpenWB(fs, path) == WriteFile(fs, path, <<>>)

\* f.write(chunk) on a handle open(path, 'wb') returned, whose position is
\* pos: the bytes replace those at pos .. pos + len(chunk) - 1 and a gap before
\* pos reads as zeros.  One handle writes at the end of what it wrote; two
\* handles on one file each write at their own position.  A file that was
\* removed or renamed since is no longer at path, and the bytes do not show
\* there.
WriteAt(content, pos, chunk) ==
  [i \in 1 .. (IF Len(content) > pos + Len(chunk) THEN Len(content)
                                                  ELSE pos + Len(chunk)) |->
     IF i > pos /\ i <= pos + Len(chunk) THEN chunk[i - pos]
     ELSE IF i <= Len(content) THEN content[i]
     ELSE 0]
AppendFile(fs, path, pos, chunk) ==
  IF PathExists(fs, path) THEN WriteFile(fs, path, WriteAt(fs[path], pos, chunk))
  ELSE fs

\* content of a file left by an earlier run
StaleContent == <<0>>

(***************************************************************************)
(* The environment's value sets.                                           *)
(***************************************************************************)
\* a Content-Length header as int(headers.get('content-length', 0)):
\* 0 is an absent (or zero) header
SizeValues ==
  (0 .. MaxSize) \cup {MirrorThreshold - 1, MirrorThreshold, MirrorThreshold + 1}

\* shutil.disk_usage(output_dir).free
FreeValues == (0 .. MaxFree) \cup {2 * MirrorThreshold}

\* redirect chains a server presents
Chains == (0 .. MaxRedirects) \cup {LongChain}

\* response statuses
FinalStatuses == {200, 308, 404}

\* URLs are numbered: 0 is the product's $value URL (app.py:162) and j is the
\* URL the Location header of the j-th redirect response names
ProductUrl == 0
LocationOf(j) == j

\* app.py:167  url = response.headers["Location"]
KeepUrl(u, location) == u
FollowLocation(u, location) == location

\* the bytes of the chunk of n bytes that follows d bytes of transfer p
ChunkBytes(p, d, n) == [i \in 1 .. n |-> 100 * p + d + i]

\* product names of the pipeline specification: one clean, one that needs
\* sanitising (and then collides with the first)
ProductNames == {<<"a", "7">>, <<"a", "/", "7">>}

\* every name of at most n characters
NamesUpTo(n) == UNION {[1 .. k -> NameChars] : k \in 0 .. n}

(***************************************************************************)
(* Python values.                                                          *)
(***************************************************************************)
\* an optional value: None is <<>>, a value x is <<x>>
None == <<>>
Some(x) == <<x>>

\* what a division by zero evaluates to: the step raises ZeroDivisionError
ZeroDivision == [num |-> 0, den |-> 0]

\* app.py:225  progress = (downloaded / total_size) * 100 if total_size > 0 else 0
\* as the exact fraction num / den
Ratio(d, t) == IF t = 0 THEN ZeroDivision ELSE [num |-> d * 100, den |-> t]
ProgressUnscaled(d, t) == IF t > 0 THEN [num |-> d, den |-> t] ELSE [num |-> 0, den |-> 1]
ProgressUnguarded(d, t) == Ratio(d, t)
Progress(d, t) == IF t > 0 THEN Ratio(d, t) ELSE [num |-> 0, den |-> 1]

\* int(progress)
IntPart(pr) == pr.num \div pr.den

\* progress == 100, without forming 100 * den
IsHundred(pr) == pr.num % 100 = 0 /\ pr.num \div 100 = pr.den

\* app.py:228  int(progress) % 2 == 0 or downloaded == total_size
ShouldEmitOdd(pr, d, t) == IntPart(pr) % 2 = 1 \/ d = t
ShouldEmit(pr, d, t) == IntPart(pr) % 2 = 0 \/ d = t

\* app.py:180  free_space < total_size * 1.2
InsufficientSpaceInclusive(free, total) == 5 * free <= 6 * total
InsufficientSpace(free, total) == 5 * free < 6 * total

\* app.py:202-203  if total_size == 0: total_size = int(headers.get(...))
\* with cl the Content-Length of the GET response
RederiveAlways(total, cl) == cl
RederiveSize(total, cl) == IF total = 0 THEN cl ELSE total

\* app.py:196, 207  io.BytesIO() if total_size < 200 MiB and total_size > 0 else None
MirrorBufferNoLowerBound(total) == IF total < MirrorThreshold THEN Some(<<>>) ELSE None
MirrorBuffer(total) ==
  IF total < MirrorThreshold /\ total > 0 THEN Some(<<>>) ELSE None

\* app.py:221-222  browser_data.write(chunk), on the buffer's bytes
MirrorWriteAtStart(bytes, chunk) ==
  chunk \o SubSeq(bytes, Len(chunk) + 1, Len(bytes))
MirrorWrite(bytes, chunk) == bytes \o chunk

\* app.py:214  the path the chunks are streamed to
StreamTargetFinal(path) == path
StreamTarget(path) == TempPathOf(path)

\* app.py:144  the path whose existence short-circuits the run
ExistingCheckPathTemp(path) == TempPathOf(path)
ExistingCheckPath(path) == path

\* app.py:247: the handler every exception of the streaming try block reaches
OpenErrorRetry == "open"
OpenErrorTarget == "cleanup"
StreamErrorRetry == "get"
StreamErrorTarget == "cleanup"

(***************************************************************************)
(* Outcomes: the value download_product returns.                           *)
(*   (output_path, True)                   AlreadyExists                   *)
(*   ((output_path, browser_data), False)  Completed                       *)
(*   (None, False)                         Failed                          *)
(***************************************************************************)
NoResult == [kind |-> "none", path |-> <<>>, copy |-> None]
AlreadyExists(path) == [kind |-> "AlreadyExists", path |-> path, copy |-> None]
Completed(path, copy) == [kind |-> "Completed", path |-> path, copy |-> copy]
Failed == [kind |-> "Failed", path |-> <<>>, copy |-> None]
\* an exception that leaves download_product
Propagated == [kind |-> "Exception", path |-> <<>>, copy |-> None]

\* app.py:257-259  except Exception as e: ... return None, False
\* the outcome when op raised under the outer try block
OuterExceptClientErrorOnly(op) == IF op = "location" THEN Propagated ELSE Failed
OuterExcept(op) == Failed

VARIABLES
  dirExists,     \* os.path.exists(output_dir)
  files,         \* path -> content, the files of output_dir
  entry_files,   \* files as they were when the invocations were entered
  variant,       \* the routine an invocation runs
  pc,            \* each invocation's position
  product_name,  \* the product_name argument
  clean_name,
  output_path,
  url,           \* the URL held by the variable url
  chain,         \* the server: redirects it still answers with
  chain0,        \* the server: the redirects of its chain, k
  requested,     \* the network requests issued, each with its URL
  total_size,
  free_space,    \* None, or the value the disk probe returned
  browser_data,  \* None, or the io.BytesIO buffer's bytes
  head_cl,       \* None, or the Content-Length the HEAD response carried
  get_cl,        \* None, or the Content-Length of the GET response while
                 \* app.py:202-203 consults it
  downloaded,
  chunks_read,   \* chunks the stream has delivered, empty ones included
  events,        \* the progress events emitted
  result,        \* the returned value
  status,        \* the last message shown on status_placeholder
  log,           \* the network requests and file-system writes performed
  arrived,       \* the non-empty chunks the stream has delivered, in order
  faults,        \* the operations that raised in this run
  progress_queue, \* download_handler.py:52  queue.Queue()
  printed,       \* the lines main has printed
  sup_pc,        \* the position of main's monitoring loop
  download_statuses, \* backend.py:26  the entry of each download_id
  running,       \* the task the event loop is running, 0 when it is idle
  observed,      \* the bodies GET /download/status has returned
  download_state, \* sentinel_downloader.py:255  None, or the product's entry
                 \* of st.session_state.download_states
  process,       \* None, or the subprocess st.session_state holds
  ui_pc,         \* the position of the script run of sentinel_downloader
  read_pos,      \* the lines read from process.stdout
  retries,       \* the Retry resets performed
  launches       \* for each subprocess started, the resets that preceded it

vars ==
  <<dirExists, files, entry_files, variant, pc, product_name, clean_name, output_path, url, chain,
    chain0, requested, total_size, free_space, browser_data, head_cl, get_cl,
    downloaded,
    chunks_read, events, result, status, log, arrived, faults, progress_queue,
    printed, sup_pc, download_statuses, running, observed, download_state,
    process, ui_pc, read_pos, retries, launches>>

fsVars == <<dirExists, files>>
entryVars == <<entry_files, variant, chain0>>
nameVars == <<entryVars, product_name, clean_name, output_path>>
hopVars == <<url, chain>>
netVars == <<hopVars, requested>>
supVars == <<progress_queue, printed, sup_pc>>
loopVars == <<running, observed>>
uiVars == <<download_state, process, ui_pc, read_pos, retries, launches>>
probeVars == <<head_cl, get_cl>>
sizeVars == <<total_size, free_space, browser_data, probeVars>>
streamVars == <<downloaded, chunks_read, events, arrived>>

Upd(f, p, v) == [f EXCEPT ![p] = v]

NetOps == {"GET_noredirect", "HEAD", "GET"}
FsOps == {"makedirs", "write_test", "remove_test", "open", "write", "rename", "remove"}

CountOps(l, ops) == Cardinality({i \in 1 .. Len(l) : l[i] \in ops})

\* the invocations that run side by side
Invoked == {p \in Procs : pc[p] # "idle"}
Concurrent == Cardinality(Invoked) > 1

\* a session of the subprocess UI is open
UiSession == ui_pc # "none"

\* the environment's values: the full sets for one invocation, and a small
\* part of them for two and for the subprocesses of a UI session
Sizes == IF Concurrent \/ UiSession THEN {MaxChunks - 1} ELSE SizeValues
Frees == IF Concurrent THEN {2 * MirrorThreshold} ELSE FreeValues
ChunkLimit == IF Concurrent \/ UiSession THEN MaxChunks - 1 ELSE MaxChunks
ChunkLens == IF Concurrent \/ UiSession THEN {1} ELSE 0 .. MaxChunkLen

\* download_handler.py:35, 37, 39  progress_queue.put(...): queue.Queue is
\* first in, first out
QueuePutFront(q, msg) == <<msg>> \o q
QueuePut(q, msg) == Append(q, msg)

\* download_handler.py:35, 37, 39: the tuples put on the queue
ProgressMsg(pr, d, t) ==
  [status |-> "progress", progress |-> pr, downloaded |-> d, total_size |-> t,
   path |-> <<>>]
TerminalMsg(res) ==
  [status |-> res.kind, progress |-> [num |-> 0, den |-> 1], downloaded |-> 0,
   total_size |-> 0, path |-> res.path]

\* backend.py:132-138: the entry POST /download writes
StartedStatus ==
  [status |-> "started", progress |-> [num |-> 0, den |-> 1], downloaded |-> 0,
   total_size |-> 0, error |-> None, path |-> None]

\* backend.py:187  download_statuses[download_id]['total_size'] = total_size
WithTotalSize(rec, t) == [rec EXCEPT !.total_size = t]

\* backend.py:205-209
ProgressUpdate(rec, pr, d) ==
  [rec EXCEPT !.status = "progress", !.progress = pr, !.downloaded = d]

\* backend.py:212-217
CompleteUpdate(rec, t, path) ==
  [rec EXCEPT !.status = "complete", !.progress = [num |-> 100, den |-> 1],
              !.downloaded = t, !.path = Some(path)]

\* backend.py:220-223
ErrorUpdateReset(rec) ==
  [StartedStatus EXCEPT !.status = "error", !.error = Some("str(e)")]
ErrorUpdate(rec) == [rec EXCEPT !.status = "error", !.error = Some("str(e)")]

\* the entry of invocation p's download_id
StatusOf(p) == download_statuses[p][1]

\* return res, having shown msg; download_handler's worker returns nothing
\* and puts its outcome on the queue (download_handler.py:37, 39); the
\* backend's worker writes it to its entry (backend.py:212-217, 220-223) and,
\* the coroutine being over, the event loop is idle again
Return(p, res, msg) ==
  /\ pc' = Upd(pc, p, "done")
  /\ result' = Upd(result, p, res)
  /\ status' = Upd(status, p, msg)
  /\ progress_queue' =
       IF variant[p] = "download_handler"
         THEN QueuePut(progress_queue, TerminalMsg(res))
         ELSE progress_queue
  /\ download_statuses' =
       IF variant[p] = "backend"
         THEN Upd(download_statuses, p,
                  Some(IF res.kind = "complete"
                         THEN CompleteUpdate(StatusOf(p), total_size[p], res.path)
                         ELSE ErrorUpdate(StatusOf(p))))
         ELSE download_statuses
  /\ running' = IF running = p THEN 0 ELSE running
  /\ UNCHANGED <<printed, sup_pc, observed, uiVars>>

\* on to label, the status entry being left to the caller
GotoKeeping(p, label) ==
  /\ pc' = Upd(pc, p, label)
  /\ UNCHANGED <<result, supVars, loopVars, uiVars>>

Goto(p, label) ==
  /\ GotoKeeping(p, label)
  /\ UNCHANGED download_statuses

Did(p, op) == log' = Upd(log, p, Append(log[p], op))
Raised(p, op) == faults' = Upd(faults, p, faults[p] \cup {op})

\* a network request: op, to the URL url holds
Request(p, op) ==
  /\ Did(p, op)
  /\ requested' = Upd(requested, p, Append(requested[p], [op |-> op, url |-> url[p]]))

\* app.py:155-157: the write test raised
WriteTestIgnored(p, op) ==
  /\ Raised(p, op)
  /\ Goto(p, "resolve")
  /\ status' = Upd(status, p, "No write permission")
WriteTestRaise(p, op) ==
  /\ Raised(p, op)
  /\ Return(p, Failed, "No write permission")

(***************************************************************************)
(* download_product, app.py:127-259 (copernicus_hub.py:85-216 is the same  *)
(* text).                                                                  *)
(***************************************************************************)

\* app.py:130-137
EnsureDir(p) ==
  /\ pc[p] = "ensure_dir"
  /\ \/ /\ dirExists
        /\ Goto(p, "clean_name")
        /\ UNCHANGED <<fsVars, status, log, faults>>
     \/ /\ ~dirExists
        /\ dirExists' = TRUE
        /\ Did(p, "makedirs")
        /\ Goto(p, "clean_name")
        /\ status' = Upd(status, p, "Created directory")
        /\ UNCHANGED <<files, faults>>
     \/ /\ ~dirExists
        /\ Raised(p, "makedirs")
        /\ Return(p, Failed, "Failed to create directory")
        /\ UNCHANGED <<fsVars, log>>
  /\ UNCHANGED <<nameVars, netVars, sizeVars, streamVars>>

\* app.py:139-141
DeriveName(p) ==
  /\ pc[p] = "clean_name"
  /\ clean_name' = Upd(clean_name, p, Sanitize(product_name[p]))
  /\ output_path' = Upd(output_path, p, OutputPathOf(Sanitize(product_name[p])))
  /\ Goto(p, "check_existing")
  /\ UNCHANGED <<fsVars, entryVars, product_name, netVars, sizeVars,
                 streamVars, status, log, faults>>

\* app.py:143-147
CheckExisting(p) ==
  /\ pc[p] = "check_existing"
  /\ IF PathExists(files, ExistingCheckPath(output_path[p]))
       THEN Return(p, AlreadyExists(output_path[p]), "File already exists")
       ELSE Goto(p, "write_test") /\ UNCHANGED status
  /\ UNCHANGED <<fsVars, nameVars, netVars, sizeVars, streamVars, log, faults>>

\* app.py:150-153, 155-157
WriteTest(p) ==
  /\ pc[p] = "write_test"
  /\ \/ /\ files' = WriteFile(files, TestFile, <<1>>)
        /\ Did(p, "write_test")
        /\ Goto(p, "remove_test")
        /\ UNCHANGED <<status, faults>>
     \/ /\ WriteTestRaise(p, "write_test")
        /\ UNCHANGED <<files, log>>
  /\ UNCHANGED <<dirExists, nameVars, netVars, sizeVars, streamVars>>

\* app.py:154-157
RemoveTest(p) ==
  /\ pc[p] = "remove_test"
  /\ \/ /\ PathExists(files, TestFile)
        /\ files' = RemoveFile(files, TestFile)
        /\ Did(p, "remove_test")
        /\ Goto(p, "resolve")
        /\ UNCHANGED <<status, faults>>
     \/ \* os.remove raises: FileNotFoundError when the marker is gone
        /\ WriteTestRaise(p, IF PathExists(files, TestFile)
                               THEN "remove_test" ELSE "marker_missing")
        /\ UNCHANGED <<files, log>>
  /\ UNCHANGED <<dirExists, nameVars, netVars, sizeVars, streamVars>>

\* app.py:165-168: one request of the redirect loop and the test of its status
ResolveRequest(p) ==
  /\ pc[p] = "resolve"
  /\ Request(p, "GET_noredirect")
  /\ \E st \in (IF chain[p] > 0 THEN RedirectCodes ELSE FinalStatuses),
        hasLocation \in BOOLEAN :
       IF st \in RedirectCodes
         THEN IF hasLocation
                THEN /\ url' = Upd(url, p,
                                   FollowLocation(url[p],
                                     LocationOf(chain0[p] - chain[p] + 1)))
                     /\ chain' = Upd(chain, p, chain[p] - 1)
                     /\ Goto(p, "resolve")
                     /\ UNCHANGED <<status, faults>>
                ELSE \* response.headers["Location"] raises KeyError
                     /\ Raised(p, "location")
                     /\ Return(p, OuterExcept("location"), "Download failed")
                     /\ UNCHANGED hopVars
         ELSE /\ hasLocation = FALSE
              /\ Goto(p, "head")
              /\ UNCHANGED <<hopVars, status, faults>>
  /\ UNCHANGED <<fsVars, nameVars, sizeVars, streamVars>>

\* app.py:165, 168: the request raises (app.py:257-259)
ResolveRaise(p) ==
  /\ pc[p] = "resolve"
  /\ Request(p, "GET_noredirect")
  /\ Raised(p, "resolve")
  /\ Return(p, OuterExcept("resolve"), "Download failed")
  /\ UNCHANGED <<fsVars, nameVars, hopVars, sizeVars, streamVars>>

\* app.py:171-174, 185-188
HeadRequest(p) ==
  /\ pc[p] = "head"
  /\ Request(p, "HEAD")
  /\ \/ \E cl \in Sizes :
          /\ total_size' = Upd(total_size, p, cl)
          /\ head_cl' = Upd(head_cl, p, Some(cl))
          /\ Goto(p, "guard")
          /\ status' = Upd(status, p, "Total size")
          /\ UNCHANGED faults
     \/ /\ Raised(p, "head")
        /\ total_size' = Upd(total_size, p, 0)
        /\ Goto(p, "get")
        /\ status' = Upd(status, p, "Couldn't determine file size in advance")
        /\ UNCHANGED head_cl
  /\ UNCHANGED <<fsVars, nameVars, hopVars, free_space, browser_data, get_cl,
                 streamVars>>

\* app.py:176-184
GuardDiskSpace(p) ==
  /\ pc[p] = "guard"
  /\ \/ \E free \in Frees :
          /\ free_space' = Upd(free_space, p, Some(free))
          /\ IF InsufficientSpace(free, total_size[p])
               THEN Return(p, Failed, "Not enough disk space")
               ELSE Goto(p, "get") /\ UNCHANGED status
          /\ UNCHANGED faults
     \/ /\ Raised(p, "disk_usage")
        /\ Goto(p, "get")
        /\ status' = Upd(status, p, "Could not check disk space")
        /\ UNCHANGED free_space
  /\ UNCHANGED <<fsVars, nameVars, netVars, total_size, browser_data, probeVars,
                 streamVars, log>>

\* app.py:196-212: the buffer decision, downloaded = 0 and the streaming GET
GetRequest(p) ==
  /\ pc[p] = "get"
  /\ Request(p, "GET")
  /\ downloaded' = Upd(downloaded, p, 0)
  /\ \/ \E cl \in Sizes :
          /\ total_size' = Upd(total_size, p, RederiveSize(total_size[p], cl))
          /\ browser_data' =
               Upd(browser_data, p, MirrorBuffer(RederiveSize(total_size[p], cl)))
          /\ get_cl' = Upd(get_cl, p, Some(cl))
          /\ Goto(p, "open")
          /\ status' = Upd(status, p, "Total size")
          /\ UNCHANGED faults
     \/ /\ Raised(p, "get")
        /\ browser_data' = Upd(browser_data, p, MirrorBuffer(total_size[p]))
        /\ Goto(p, "cleanup")
        /\ UNCHANGED <<total_size, get_cl, status>>
  /\ UNCHANGED <<fsVars, nameVars, hopVars, free_space, head_cl, chunks_read,
                 events, arrived>>

\* app.py:214
OpenPart(p) ==
  /\ pc[p] = "open"
  /\ \/ /\ files' = OpenWB(files, StreamTarget(output_path[p]))
        /\ Did(p, "open")
        /\ Goto(p, "stream")
        /\ UNCHANGED faults
     \/ /\ Raised(p, "open")
        /\ Goto(p, OpenErrorTarget)
        /\ UNCHANGED <<files, log>>
  /\ get_cl' = Upd(get_cl, p, None)
  /\ UNCHANGED <<dirExists, nameVars, netVars, total_size, free_space,
                 browser_data, head_cl, streamVars, status>>

\* app.py:215-233: one chunk of the stream
ReadChunk(p) ==
  /\ pc[p] = "stream"
  /\ chunks_read[p] < ChunkLimit
  /\ chunks_read' = Upd(chunks_read, p, chunks_read[p] + 1)
  /\ \E n \in ChunkLens :
       LET chunk == ChunkBytes(p, downloaded[p], n)
           d == downloaded[p] + n
           pr == Progress(d, total_size[p])
       IN IF n = 0
            THEN \* if chunk: is false
                 /\ Goto(p, "stream")
                 /\ UNCHANGED <<files, browser_data, downloaded, events,
                                arrived, status, log, faults>>
            ELSE /\ files' = AppendFile(files, StreamTarget(output_path[p]), downloaded[p], chunk)
                 /\ Did(p, "write")
                 /\ arrived' = Upd(arrived, p, Append(arrived[p], chunk))
                 /\ browser_data' =
                      Upd(browser_data, p,
                          IF browser_data[p] # None
                            THEN Some(MirrorWrite(browser_data[p][1], chunk))
                            ELSE None)
                 /\ downloaded' = Upd(downloaded, p, d)
                 /\ IF pr = ZeroDivision
                      THEN /\ Raised(p, "ZeroDivisionError")
                           /\ Goto(p, "cleanup")
                           /\ UNCHANGED <<events, status>>
                      ELSE /\ Goto(p, "stream")
                           /\ UNCHANGED faults
                           /\ IF ShouldEmit(pr, d, total_size[p])
                                THEN /\ events' =
                                          Upd(events, p,
                                              Append(events[p],
                                                     [downloaded |-> d,
                                                      total |-> total_size[p],
                                                      percent |-> pr]))
                                     /\ status' = Upd(status, p, "Downloading")
                                ELSE UNCHANGED <<events, status>>
  /\ UNCHANGED <<dirExists, nameVars, netVars, total_size, free_space,
                 probeVars>>

\* app.py:215, 218: reading or writing a chunk raises
ChunkRaise(p) ==
  /\ pc[p] = "stream"
  /\ Raised(p, "chunk")
  /\ Goto(p, StreamErrorTarget)
  /\ UNCHANGED <<fsVars, nameVars, netVars, sizeVars, streamVars, status, log>>

\* app.py:215: the stream is exhausted and the with blocks close
StreamEnd(p) ==
  /\ pc[p] = "stream"
  /\ Goto(p, "rename")
  /\ UNCHANGED <<fsVars, nameVars, netVars, sizeVars, streamVars, status, log,
                 faults>>

\* app.py:236-245
Rename(p) ==
  /\ pc[p] = "rename"
  /\ \/ /\ PathExists(files, TempPathOf(output_path[p]))
        /\ files' = RenameFile(files, TempPathOf(output_path[p]), output_path[p])
        /\ Did(p, "rename")
        /\ Return(p, Completed(output_path[p], browser_data[p]), "Download complete")
        /\ UNCHANGED faults
     \/ /\ Raised(p, "rename")
        /\ Goto(p, "cleanup")
        /\ UNCHANGED <<files, status, log>>
  /\ UNCHANGED <<dirExists, nameVars, netVars, sizeVars, streamVars>>

\* app.py:247-255
Cleanup(p) ==
  /\ pc[p] = "cleanup"
  /\ IF PathExists(files, TempPathOf(output_path[p]))
       THEN \/ /\ files' = RemoveFile(files, TempPathOf(output_path[p]))
               /\ Did(p, "remove")
               /\ UNCHANGED faults
            \/ /\ Raised(p, "remove")
               /\ UNCHANGED <<files, log>>
       ELSE UNCHANGED <<files, log, faults>>
  /\ Return(p, Failed, "Error downloading file")
  /\ UNCHANGED <<dirExists, nameVars, netVars, sizeVars, streamVars>>

(***************************************************************************)
(* Initial states.                                                         *)
(***************************************************************************)
\* the files an earlier run of the same product may have left: the finished
\* file and the temporary file, under the sanitised and the raw name
StaleFiles(name) ==
  {[f \in S |-> StaleContent] :
     S \in {T \in SUBSET {OutputPathOf(Sanitize(name)),
                          TempPathOf(OutputPathOf(Sanitize(name))),
                          OutputPathOf(name)} : Cardinality(T) <= 2}}

\* invocation 1 is entered with a name of names; the others are not invoked
InitWith(names, chains, variants, entry) ==
  /\ \E name \in names :
       /\ product_name = [p \in Procs |-> IF p = 1 THEN name ELSE <<>>]
       /\ \/ dirExists = FALSE /\ files = EmptyFs
          \/ dirExists = TRUE /\ files \in StaleFiles(name)
  /\ entry_files = files
  /\ \E v \in variants : variant = [p \in Procs |-> IF p = 1 THEN v ELSE "none"]
  /\ pc = [p \in Procs |-> IF p = 1 THEN entry ELSE "idle"]
  /\ clean_name = [p \in Procs |-> <<>>]
  /\ output_path = [p \in Procs |-> <<>>]
  /\ url = [p \in Procs |-> ProductUrl]
  /\ \E c \in chains : chain = [p \in Procs |-> IF p = 1 THEN c ELSE 0]
  /\ chain0 = chain
  /\ requested = [p \in Procs |-> <<>>]
  /\ total_size = [p \in Procs |-> 0]
  /\ free_space = [p \in Procs |-> None]
  /\ browser_data = [p \in Procs |-> None]
  /\ head_cl = [p \in Procs |-> None]
  /\ get_cl = [p \in Procs |-> None]
  /\ downloaded = [p \in Procs |-> 0]
  /\ chunks_read = [p \in Procs |-> 0]
  /\ events = [p \in Procs |-> <<>>]
  /\ result = [p \in Procs |-> NoResult]
  /\ status = [p \in Procs |-> ""]
  /\ log = [p \in Procs |-> <<>>]
  /\ arrived = [p \in Procs |-> <<>>]
  /\ faults = [p \in Procs |-> {}]
  /\ download_statuses =
       [p \in Procs |-> IF variant[p] = "backend" /\ entry = "w_start"
                          THEN Some(StartedStatus) ELSE None]
  /\ running = IF variant[1] = "backend" /\ entry = "w_start" THEN 1 ELSE 0
  /\ observed = {}
  /\ download_state = None
  /\ process = None
  /\ ui_pc = IF entry = "idle" THEN "idle" ELSE "none"
  /\ read_pos = 0
  /\ retries = 0
  /\ launches = <<>>

(***************************************************************************)
(* The worker variants: download_handler.download_worker (lines 8-39),     *)
(* backend.download_worker (backend.py:160-223) and                        *)
(* frontend.download_product (frontend.py:54-96).  The three share their   *)
(* text: no sanitising, no existing-file check, no temporary file; they    *)
(* differ in where the outcome is reported (the queue, the status record,  *)
(* the return value), which result stands for here.                        *)
(***************************************************************************)
WorkerVariants == {"download_handler", "backend", "frontend"}

WorkerComplete(path) == [kind |-> "complete", path |-> path, copy |-> None]
WorkerError == [kind |-> "error", path |-> <<>>, copy |-> None]

\* download_handler.py:38-39, backend.py:218-223, frontend.py:94-96
WorkerFail(p, op) ==
  /\ Raised(p, op)
  /\ Return(p, WorkerError, "error")

\* download_handler.py:11, backend.py:163, frontend.py:57-60
WorkerStart(p) ==
  /\ pc[p] = "w_start"
  /\ output_path' = Upd(output_path, p, OutputPathOf(product_name[p]))
  /\ IF variant[p] = "frontend" /\ ~dirExists
       THEN \/ /\ dirExists' = TRUE
               /\ Did(p, "makedirs")
               /\ Goto(p, "w_resolve")
               /\ UNCHANGED <<status, faults>>
            \/ /\ WorkerFail(p, "makedirs")
               /\ UNCHANGED <<dirExists, log>>
       ELSE /\ Goto(p, "w_resolve")
            /\ UNCHANGED <<dirExists, status, log, faults>>
  /\ UNCHANGED <<files, entryVars, product_name, clean_name, netVars,
                 sizeVars, streamVars>>

\* download_handler.py:18-21, backend.py:174-178, frontend.py:67-70
WorkerResolve(p) ==
  /\ pc[p] = "w_resolve"
  /\ Request(p, "GET_noredirect")
  /\ \/ \E st \in (IF chain[p] > 0 THEN RedirectCodes ELSE FinalStatuses),
           hasLocation \in BOOLEAN :
          IF st \in RedirectCodes
            THEN IF hasLocation
                   THEN /\ url' = Upd(url, p,
                                      FollowLocation(url[p],
                                        LocationOf(chain0[p] - chain[p] + 1)))
                        /\ chain' = Upd(chain, p, chain[p] - 1)
                        /\ Goto(p, "w_resolve")
                        /\ UNCHANGED <<status, faults>>
                   ELSE /\ WorkerFail(p, "location")
                        /\ UNCHANGED hopVars
            ELSE /\ hasLocation = FALSE
                 /\ Goto(p, "w_get")
                 /\ UNCHANGED <<hopVars, status, faults>>
     \/ /\ WorkerFail(p, "resolve")
        /\ UNCHANGED hopVars
  /\ UNCHANGED <<fsVars, nameVars, sizeVars, streamVars>>

\* download_handler.py:24-28, backend.py:182-192, frontend.py:73-78
WorkerGet(p) ==
  /\ pc[p] = "w_get"
  /\ Request(p, "GET")
  /\ \/ \E cl \in Sizes :
          /\ total_size' = Upd(total_size, p, cl)
          /\ download_statuses' =
               IF variant[p] = "backend"
                 THEN Upd(download_statuses, p, Some(WithTotalSize(StatusOf(p), cl)))
                 ELSE download_statuses
          /\ GotoKeeping(p, "w_open")
          /\ UNCHANGED <<status, faults>>
     \/ /\ WorkerFail(p, "get")
        /\ UNCHANGED total_size
  /\ UNCHANGED <<fsVars, nameVars, hopVars, free_space, browser_data, probeVars,
                 streamVars>>

\* download_handler.py:29, backend.py:193, frontend.py:79
WorkerOpen(p) ==
  /\ pc[p] = "w_open"
  /\ \/ /\ dirExists
        /\ files' = OpenWB(files, output_path[p])
        /\ Did(p, "open")
        /\ Goto(p, "w_stream")
        /\ UNCHANGED <<status, faults>>
     \/ /\ WorkerFail(p, "open")
        /\ UNCHANGED <<files, log>>
  /\ UNCHANGED <<dirExists, nameVars, netVars, sizeVars, streamVars>>

\* download_handler.py:30-35, backend.py:194-209, frontend.py:80-89
WorkerChunk(p) ==
  /\ pc[p] = "w_stream"
  /\ chunks_read[p] < ChunkLimit
  /\ chunks_read' = Upd(chunks_read, p, chunks_read[p] + 1)
  /\ \E n \in ChunkLens :
       LET chunk == ChunkBytes(p, downloaded[p], n)
           d == downloaded[p] + n
       IN IF n = 0
            THEN UNCHANGED <<files, downloaded, events, arrived, status, log,
                             progress_queue, download_statuses>>
            ELSE /\ files' = AppendFile(files, output_path[p], downloaded[p], chunk)
                 /\ Did(p, "write")
                 /\ arrived' = Upd(arrived, p, Append(arrived[p], chunk))
                 /\ downloaded' = Upd(downloaded, p, d)
                 /\ events' =
                      Upd(events, p,
                          Append(events[p],
                                 [downloaded |-> d, total |-> total_size[p],
                                  percent |-> Progress(d, total_size[p])]))
                 /\ status' = Upd(status, p, "progress")
                 /\ progress_queue' =
                      IF variant[p] = "download_handler"
                        THEN QueuePut(progress_queue,
                                      ProgressMsg(Progress(d, total_size[p]), d,
                                                  total_size[p]))
                        ELSE progress_queue
                 /\ download_statuses' =
                      IF variant[p] = "backend"
                        THEN Upd(download_statuses, p,
                                 Some(ProgressUpdate(StatusOf(p),
                                                     Progress(d, total_size[p]), d)))
                        ELSE download_statuses
  /\ pc' = Upd(pc, p, "w_stream")
  /\ UNCHANGED <<dirExists, nameVars, netVars, sizeVars, faults, result,
                 printed, sup_pc, loopVars, uiVars>>

\* download_handler.py:30, 32: reading or writing a chunk raises
WorkerChunkRaise(p) ==
  /\ pc[p] = "w_stream"
  /\ WorkerFail(p, "chunk")
  /\ UNCHANGED <<fsVars, nameVars, netVars, sizeVars, streamVars, log>>

\* download_handler.py:37, backend.py:211-217, frontend.py:91-92
WorkerEnd(p) ==
  /\ pc[p] = "w_stream"
  /\ Return(p, WorkerComplete(output_path[p]), "complete")
  /\ UNCHANGED <<fsVars, nameVars, netVars, sizeVars, streamVars, log, faults>>

(***************************************************************************)
(* Specifications.                                                         *)
(***************************************************************************)
\* main of download_handler.py is not running
NoSupervisor ==
  /\ progress_queue = <<>>
  /\ printed = <<>>
  /\ sup_pc = "none"

\* the script of sentinel_downloader.py is not running
NoUi ==
  /\ download_state = None
  /\ process = None
  /\ ui_pc = "none"
  /\ read_pos = 0
  /\ retries = 0
  /\ launches = <<>>

Init == InitWith(ProductNames, Chains, {"app"}, "ensure_dir") /\ NoSupervisor

Next ==
  \E p \in Procs :
    \/ EnsureDir(p)
    \/ DeriveName(p)
    \/ CheckExisting(p)
    \/ WriteTest(p)
    \/ RemoveTest(p)
    \/ ResolveRequest(p)
    \/ ResolveRaise(p)
    \/ HeadRequest(p)
    \/ GuardDiskSpace(p)
    \/ GetRequest(p)
    \/ OpenPart(p)
    \/ ReadChunk(p)
    \/ ChunkRaise(p)
    \/ StreamEnd(p)
    \/ Rename(p)
    \/ Cleanup(p)

\* one download_product invocation, from entry to return
Spec == Init /\ [][Next]_vars

\* the Init stage of download_product on every product name of at most
\* MaxNameLen characters
InitSanitize ==
  InitWith(NamesUpTo(MaxNameLen), {0}, {"app"}, "ensure_dir") /\ NoSupervisor

NextSanitize ==
  \E p \in Procs :
    \/ EnsureDir(p)
    \/ DeriveName(p)
    \/ CheckExisting(p)

SanitizeSpec == InitSanitize /\ [][NextSanitize]_vars

\* one run of a worker variant
InitWorker ==
  InitWith(ProductNames, Chains, WorkerVariants, "w_start") /\ NoSupervisor

NextWorker ==
  \E p \in Procs :
    \/ WorkerStart(p)
    \/ WorkerResolve(p)
    \/ WorkerGet(p)
    \/ WorkerOpen(p)
    \/ WorkerChunk(p)
    \/ WorkerChunkRaise(p)
    \/ WorkerEnd(p)

WorkerSpec == InitWorker /\ [][NextWorker]_vars

(***************************************************************************)
(* Properties.                                                             *)
(***************************************************************************)
\* the final path download_product derives for invocation p
FinalPath(p) == OutputPathOf(Sanitize(product_name[p]))

\* the operations whose exception the handler of app.py:247 receives
StreamFaults == {"get", "open", "chunk", "rename", "ZeroDivisionError"}

RECURSIVE Flatten(_)
Flatten(chunks) ==
  IF chunks = <<>> THEN <<>> ELSE Head(chunks) \o Flatten(Tail(chunks))

NonDecreasing(evs) ==
  \A i, j \in 1 .. Len(evs) : i <= j => evs[i].downloaded <= evs[j].downloaded

\* C1 (idempotent skip): an invocation entered while a file exists at its
\* derived final path performs no network request and no file-system write,
\* leaves the directory and every file as they were, and returns
\* AlreadyExists, (output_path, True).
C1_IdempotentSkip ==
  \A p \in Invoked :
    PathExists(entry_files, FinalPath(p)) =>
      /\ log[p] = <<>>
      /\ files = entry_files
      /\ dirExists
      /\ pc[p] = "done" => result[p] = AlreadyExists(FinalPath(p))

C1_Witness ==
  \E p \in Invoked :
    /\ PathExists(entry_files, FinalPath(p))
    /\ pc[p] = "done"
    /\ result[p].kind = "AlreadyExists"

\* C2 (atomicity on failure): a single invocation entered with no file at
\* the final path, in which opening the GET, opening or writing the .part
\* file, reading a chunk or the rename raised, returns Failed with no file at
\* the final path; the .part file is gone unless os.remove raised.
C2_AtomicOnFailure ==
  \A p \in Invoked :
    ( /\ pc[p] = "done"
      /\ ~PathExists(entry_files, FinalPath(p))
      /\ faults[p] \cap StreamFaults # {} ) =>
      /\ result[p] = Failed
      /\ ~PathExists(files, FinalPath(p))
      /\ PathExists(files, TempPathOf(FinalPath(p))) => "remove" \in faults[p]

C2_Witness ==
  \E p \in Invoked :
    /\ pc[p] = "done"
    /\ "chunk" \in faults[p]
    /\ Len(arrived[p]) >= 2
    /\ ~PathExists(files, TempPathOf(FinalPath(p)))
    /\ result[p] = Failed

\* C3 (disk-space gate), as claimed: whenever the total size T > 0 is known
\* before the first chunk, from the HEAD response or from the GET response,
\* and the free-space probe reported free < 1.2 * T, the run has not opened
\* the .part file and has read no chunk, and it returns Failed with the
\* disk-space message.
C3_DiskSpaceGate ==
  \A p \in Invoked :
    ( /\ total_size[p] > 0
      /\ free_space[p] # None
      /\ InsufficientSpace(free_space[p][1], total_size[p]) ) =>
      /\ CountOps(log[p], {"open", "write"}) = 0
      /\ chunks_read[p] = 0
      /\ pc[p] = "done" =>
           result[p] = Failed /\ status[p] = "Not enough disk space"

\* C4 (redirect termination), as claimed: the resolver follows at most
\* RedirectHopBound redirects, so it issues at most RedirectHopBound + 1
\* requests in the redirect phase.
C4_RedirectsBounded ==
  \A p \in Invoked :
    /\ url[p] <= RedirectHopBound
    /\ CountOps(log[p], {"GET_noredirect"}) <= RedirectHopBound + 1

\* C5 (progress monotonicity): when the chunk loop has ended without an
\* exception, the total size T > 0 is known and the chunks sum to T, then,
\* already before the rename and the success message, at least one progress
\* event was emitted, the emitted downloaded values are non-decreasing, and
\* the last event has downloaded = T and percent = 100.
C5_ProgressMonotone ==
  \A p \in Invoked :
    ( /\ \/ pc[p] = "rename"
         \/ pc[p] = "done" /\ result[p].kind = "Completed"
      /\ total_size[p] > 0
      /\ downloaded[p] = total_size[p] ) =>
      /\ events[p] # <<>>
      /\ NonDecreasing(events[p])
      /\ events[p][Len(events[p])].downloaded = total_size[p]
      /\ IsHundred(events[p][Len(events[p])].percent)

\* three chunks of one byte of a file of three bytes: the event of the first
\* chunk (33%) is throttled away
C5_Witness ==
  \E p \in Invoked :
    /\ pc[p] = "done"
    /\ result[p].kind = "Completed"
    /\ total_size[p] = 3
    /\ downloaded[p] = 3
    /\ Len(arrived[p]) = 3
    /\ Len(events[p]) = 2

\* C6 (filename sanitisation), as claimed: clean_name holds only characters
\* of [A-Za-z0-9 _.-], and the final path is <output_dir>/<clean_name>.zip.
C6_CleanNameAscii ==
  \A p \in Invoked :
    pc[p] \notin {"ensure_dir", "clean_name"} /\ result[p].kind # "Failed" =>
      /\ \A i \in 1 .. Len(clean_name[p]) :
           clean_name[p][i] \in AsciiAlnum \cup Punct
      /\ output_path[p] = <<OutputDir, "/">> \o clean_name[p] \o <<".zip">>

\* C6, amended: clean_name holds only alphanumeric characters in the sense of
\* str.isalnum (ASCII or not) and the characters space, '-', '_' and '.';
\* the final path is <output_dir>/<clean_name>.zip.
C6_CleanNameWhitelisted ==
  \A p \in Invoked :
    pc[p] \notin {"ensure_dir", "clean_name"} /\ result[p].kind # "Failed" =>
      /\ \A i \in 1 .. Len(clean_name[p]) :
           clean_name[p][i] \in AsciiAlnum \cup UnicodeAlnum \cup Punct
      /\ output_path[p] = <<OutputDir, "/">> \o clean_name[p] \o <<".zip">>

\* a name with a dropped character and a non-ASCII letter that is kept
C6_Witness ==
  \E p \in Invoked :
    /\ pc[p] = "check_existing"
    /\ \E i \in 1 .. Len(product_name[p]) : product_name[p][i] \in Dropped
    /\ \E i \in 1 .. Len(clean_name[p]) : clean_name[p][i] \in UnicodeAlnum
    /\ Len(clean_name[p]) < Len(product_name[p])

\* C7 (unknown size): while the total size is 0 every progress event reports
\* total 0 and percent 0; no step raises ZeroDivisionError; and a run with
\* total size 0 in which neither the GET, the .part file, a chunk nor the
\* rename raised ends Completed, the .part file renamed to the final path.
C7_UnknownSize ==
  \A p \in Invoked :
    /\ "ZeroDivisionError" \notin faults[p]
    /\ total_size[p] = 0 =>
         /\ \A i \in 1 .. Len(events[p]) :
              events[p][i].total = 0 /\ events[p][i].percent.num = 0
         /\ ( /\ pc[p] = "done"
              /\ "GET" \in {log[p][i] : i \in 1 .. Len(log[p])}
              /\ faults[p] \cap StreamFaults = {} ) =>
              /\ result[p].kind = "Completed"
              /\ PathExists(files, FinalPath(p))
              /\ ~PathExists(files, TempPathOf(FinalPath(p)))

C7_Witness ==
  \E p \in Invoked :
    /\ pc[p] = "done"
    /\ result[p].kind = "Completed"
    /\ total_size[p] = 0
    /\ "head" \in faults[p]
    /\ Len(events[p]) >= 2

\* C8 (worker variants), as claimed: a worker that reports an error after
\* chunks have arrived leaves no file at the final path.
C8_WorkerNoPartialFile ==
  \A p \in Invoked :
    ( /\ pc[p] = "done"
      /\ result[p].kind = "error"
      /\ arrived[p] # <<>> ) =>
      ~PathExists(files, OutputPathOf(product_name[p]))

\* C9 (the final path holds only finished artifacts): in a single invocation
\* entered with no file at the final path, a file is at the final path only
\* when the last file operation was the rename of the .part file, no
\* exception was raised in the chunk loop, and the file's content is the
\* concatenation in arrival order of the non-empty chunks.
C9_FinalOnlyFinished ==
  \A p \in Invoked :
    ( /\ ~PathExists(entry_files, FinalPath(p))
      /\ PathExists(files, FinalPath(p)) ) =>
      /\ log[p] # <<>> /\ log[p][Len(log[p])] = "rename"
      /\ faults[p] \cap StreamFaults = {}
      /\ pc[p] = "done" /\ result[p].kind = "Completed"
      /\ ~PathExists(files, TempPathOf(FinalPath(p)))
      /\ files[FinalPath(p)] = Flatten(arrived[p])

\* the transfer overwrote the .part file an earlier run had left
C9_Witness ==
  \E p \in Invoked :
    /\ PathExists(entry_files, TempPathOf(FinalPath(p)))
    /\ ~PathExists(entry_files, FinalPath(p))
    /\ PathExists(files, FinalPath(p))
    /\ Len(arrived[p]) >= 2
    /\ chunks_read[p] > Len(arrived[p])

\* C10 (in-memory mirror threshold): the in-memory buffer, and with it the
\* copy a Completed outcome carries, is not None only when the total size of
\* the transfer is known (> 0) and below 200 MiB; otherwise it is None, so no
\* chunk is appended to it.
C10_MirrorThreshold ==
  \A p \in Invoked :
    /\ browser_data[p] # None =>
         total_size[p] > 0 /\ total_size[p] < MirrorThreshold
    /\ result[p].copy # None =>
         /\ result[p].kind = "Completed"
         /\ total_size[p] > 0 /\ total_size[p] < MirrorThreshold

C10_Witness ==
  \E p \in Invoked :
    /\ result[p].kind = "Completed"
    /\ result[p].copy # None
    /\ total_size[p] = MirrorThreshold - 1
    /\ Len(result[p].copy[1]) >= 2

\* the operations of the write test, app.py:150-154
WriteTestFaults == {"write_test", "remove_test", "marker_missing"}

\* C11 (fail-fast write-permission check): when writing or deleting the
\* .write_test marker raised, the run is over with Failed, (None, False), and
\* it has issued no network request: no redirect-resolution GET, no HEAD, no
\* streaming GET.  A run that is over takes no further step.
C11_WriteTestFailFast ==
  \A p \in Invoked :
    faults[p] \cap WriteTestFaults # {} =>
      /\ pc[p] = "done"
      /\ result[p] = Failed
      /\ status[p] = "No write permission"
      /\ CountOps(log[p], NetOps) = 0
      /\ requested[p] = <<>>

C11_Witness ==
  \E p \in Invoked :
    /\ "remove_test" \in faults[p]
    /\ "write_test" \in {log[p][i] : i \in 1 .. Len(log[p])}
    /\ pc[p] = "done"
    /\ result[p] = Failed

(***************************************************************************)
(* download_handler.main, download_handler.py:41-88: the thread that runs  *)
(* download_worker and the loop that prints what the worker puts on        *)
(* progress_queue.                                                         *)
(***************************************************************************)
TerminalStatuses == {"complete", "error"}

\* download_handler.py:67-72, 75-78, 82-85  print(json.dumps({...}))
JsonLine(msg) ==
  IF msg.status = "progress"
    THEN [status |-> "progress", progress |-> msg.progress,
          downloaded |-> msg.downloaded, total_size |-> msg.total_size]
  ELSE IF msg.status = "complete"
    THEN [status |-> "complete", path |-> msg.path]
  ELSE [status |-> "error", error |-> "str(e)"]

\* download_handler.py:64-86: a message is taken, printed, and a terminal
\* one ends the loop
SupGet ==
  /\ sup_pc = "loop"
  /\ progress_queue # <<>>
  /\ progress_queue' = Tail(progress_queue)
  /\ printed' = Append(printed, JsonLine(Head(progress_queue)))
  /\ sup_pc' = IF Head(progress_queue).status \in TerminalStatuses
                 THEN "exit" ELSE "loop"
  /\ UNCHANGED <<fsVars, nameVars, netVars, sizeVars, streamVars, pc, result,
                 status, log, faults, download_statuses, loopVars, uiVars>>

\* download_handler.py:64, 87-88: get times out on the empty queue
SupEmptyBreak ==
  /\ sup_pc = "loop"
  /\ progress_queue = <<>>
  /\ sup_pc' = "exit"
  /\ UNCHANGED <<fsVars, nameVars, netVars, sizeVars, streamVars, pc, result,
                 status, log, faults, progress_queue, printed,
                 download_statuses, loopVars, uiVars>>
SupEmpty ==
  /\ sup_pc = "loop"
  /\ progress_queue = <<>>
  /\ UNCHANGED vars

\* download_handler.py:52-59: the queue is created and the thread started
InitHandler ==
  /\ InitWith(ProductNames, Chains, {"download_handler"}, "w_start")
  /\ progress_queue = <<>>
  /\ printed = <<>>
  /\ sup_pc = "loop"

NextHandler ==
  \/ \E p \in Procs :
       \/ WorkerStart(p)
       \/ WorkerResolve(p)
       \/ WorkerGet(p)
       \/ WorkerOpen(p)
       \/ WorkerChunk(p)
       \/ WorkerChunkRaise(p)
       \/ WorkerEnd(p)
  \/ SupGet
  \/ SupEmpty

\* the worker thread and main's loop, interleaved
HandlerSpec == InitHandler /\ [][NextHandler]_vars

\* what worker p has put on the queue, in the order of its put calls
Enqueued(p) ==
  [i \in 1 .. Len(events[p]) |->
     ProgressMsg(events[p][i].percent, events[p][i].downloaded,
                 events[p][i].total)]
    \o (IF result[p].kind \in TerminalStatuses
          THEN <<TerminalMsg(result[p])>> ELSE <<>>)

\* the statuses of the lines printed and of the messages still queued
LineStatuses ==
  [i \in 1 .. Len(printed) |-> printed[i].status]
    \o [i \in 1 .. Len(progress_queue) |-> progress_queue[i].status]

\* C12 (event ordering, download_handler.py): in every interleaving of the
\* worker thread and main's loop, the lines printed are the messages the
\* worker enqueued, in the order it enqueued them, and the rest is still
\* queued in that order; the 'downloaded' values printed are non-decreasing;
\* a terminal message ('complete' or 'error') is enqueued once, by the step
\* that ends the worker, as the last message; and the loop has ended exactly
\* when the terminal line is printed, which is then the last line.
C12_EventOrder ==
  \A p \in Invoked :
    /\ Len(printed) <= Len(Enqueued(p))
    /\ \A i \in 1 .. Len(printed) : printed[i] = JsonLine(Enqueued(p)[i])
    /\ sup_pc = "loop" =>
         progress_queue = SubSeq(Enqueued(p), Len(printed) + 1, Len(Enqueued(p)))
    /\ \A i, j \in 1 .. Len(printed) :
         ( /\ i <= j
           /\ printed[i].status = "progress"
           /\ printed[j].status = "progress" ) =>
           printed[i].downloaded <= printed[j].downloaded
    /\ \A i \in 1 .. Len(LineStatuses) :
         LineStatuses[i] \in TerminalStatuses => i = Len(LineStatuses)
    /\ pc[p] = "done" <=>
         ( /\ LineStatuses # <<>>
           /\ LineStatuses[Len(LineStatuses)] \in TerminalStatuses )
    /\ sup_pc = "exit" <=>
         ( /\ printed # <<>>
           /\ printed[Len(printed)].status \in TerminalStatuses )
    /\ sup_pc = "exit" => progress_queue = <<>>

C12_Witness ==
  /\ sup_pc = "exit"
  /\ Len(printed) >= 3
  /\ printed[1].status = "progress"
  /\ printed[Len(printed)].status = "complete"

(***************************************************************************)
(* Two download_product invocations on one output_dir.                     *)
(***************************************************************************)
\* the product names of two invocations: a pair whose final paths differ
\* and a pair of different names whose final paths are equal
NamePairs ==
  { << <<"a", "7">>, <<"b">> >>, << <<"a", "7">>, <<"a", "/", "7">> >> }

\* both invocations are entered, into an output_dir that is missing or empty
InitPair(pairs, entry) ==
  /\ \E names \in pairs : product_name = [p \in Procs |-> names[p]]
  /\ dirExists \in BOOLEAN
  /\ files = EmptyFs
  /\ entry_files = files
  /\ variant = [p \in Procs |-> "app"]
  /\ pc = [p \in Procs |-> entry]
  /\ clean_name = [p \in Procs |-> <<>>]
  /\ output_path = [p \in Procs |-> <<>>]
  /\ url = [p \in Procs |-> ProductUrl]
  /\ chain = [p \in Procs |-> 0]
  /\ chain0 = chain
  /\ requested = [p \in Procs |-> <<>>]
  /\ total_size = [p \in Procs |-> 0]
  /\ free_space = [p \in Procs |-> None]
  /\ browser_data = [p \in Procs |-> None]
  /\ head_cl = [p \in Procs |-> None]
  /\ get_cl = [p \in Procs |-> None]
  /\ downloaded = [p \in Procs |-> 0]
  /\ chunks_read = [p \in Procs |-> 0]
  /\ events = [p \in Procs |-> <<>>]
  /\ result = [p \in Procs |-> NoResult]
  /\ status = [p \in Procs |-> ""]
  /\ log = [p \in Procs |-> <<>>]
  /\ arrived = [p \in Procs |-> <<>>]
  /\ faults = [p \in Procs |-> {}]
  /\ download_statuses = [p \in Procs |-> None]
  /\ running = 0
  /\ observed = {}
  /\ NoUi
  /\ NoSupervisor

InitConc == InitPair(NamePairs, "ensure_dir")

\* two invocations from independent execution contexts, their steps
\* interleaved in every way
ConcSpec == InitConc /\ [][Next]_vars

\* the second invocation is made when the first has returned
Turn(p) == p = 1 \/ pc[1] = "done"

NextSeq ==
  \E p \in Procs :
    \/ Turn(p) /\ EnsureDir(p)
    \/ Turn(p) /\ DeriveName(p)
    \/ Turn(p) /\ CheckExisting(p)
    \/ Turn(p) /\ WriteTest(p)
    \/ Turn(p) /\ RemoveTest(p)
    \/ Turn(p) /\ ResolveRequest(p)
    \/ Turn(p) /\ ResolveRaise(p)
    \/ Turn(p) /\ HeadRequest(p)
    \/ Turn(p) /\ GuardDiskSpace(p)
    \/ Turn(p) /\ GetRequest(p)
    \/ Turn(p) /\ OpenPart(p)
    \/ Turn(p) /\ ReadChunk(p)
    \/ Turn(p) /\ ChunkRaise(p)
    \/ Turn(p) /\ StreamEnd(p)
    \/ Turn(p) /\ Rename(p)
    \/ Turn(p) /\ Cleanup(p)

SeqSpec == InitConc /\ [][NextSeq]_vars

\* the exceptions whose cause lies in the invocation's own requests and
\* file operations, and end it
OwnFaults ==
  {"makedirs", "write_test", "remove_test", "location", "resolve", "get",
   "open", "chunk", "rename", "ZeroDivisionError"}

\* C13 (independence of concurrent downloads with distinct filenames): of
\* two interleaved invocations whose final paths differ, one ends in Failed
\* only for a cause of its own: an operation of its own that raised, or too
\* little free space; never because of a step of the other invocation.
C13_Independent ==
  \A p \in Invoked :
    ( /\ FinalPath(1) # FinalPath(2)
      /\ pc[p] = "done"
      /\ result[p] = Failed ) =>
      \/ faults[p] \cap OwnFaults # {}
      \/ status[p] = "Not enough disk space"

\* invocation p holds its .part file open for writing (app.py:214-233)
Writing(p) == pc[p] = "stream"

\* C14 as stated (exclusive ownership of the temp file): of two interleaved
\* invocations with equal final paths, entered while the final file does not
\* exist, at most one at a time writes the .part file, and a file at the
\* final path holds the chunk sequence of exactly one completed transfer.
C14_ExclusiveTemp ==
  FinalPath(1) = FinalPath(2) =>
    /\ ~(Writing(1) /\ Writing(2))
    /\ PathExists(files, FinalPath(1)) =>
         \E p \in Invoked :
           /\ result[p].kind = "Completed"
           /\ files[FinalPath(1)] = Flatten(arrived[p])

\* C14, amended: of two interleaved invocations with different final paths,
\* entered into an empty directory, each .part file is written by the one
\* invocation that derived it and holds that invocation's chunks in order,
\* and a file at a final path was put there by a completed transfer of the
\* invocation that derived it and holds exactly its chunk sequence.
C14_TempOwnedDistinct ==
  FinalPath(1) # FinalPath(2) =>
    \A p \in Invoked :
      /\ PathExists(files, TempPathOf(FinalPath(p))) =>
           /\ pc[p] \in {"stream", "rename", "cleanup", "done"}
           /\ files[TempPathOf(FinalPath(p))] = Flatten(arrived[p])
      /\ PathExists(files, FinalPath(p)) =>
           /\ result[p].kind = "Completed"
           /\ files[FinalPath(p)] = Flatten(arrived[p])

C14_Witness ==
  /\ FinalPath(1) # FinalPath(2)
  /\ Writing(1) /\ Writing(2)
  /\ arrived[1] # <<>> /\ arrived[2] # <<>>
  /\ PathExists(files, TempPathOf(FinalPath(1)))
  /\ PathExists(files, TempPathOf(FinalPath(2)))

\* two different product names that app.py:140 maps to one clean_name:
\* 'a7' and 'a/7'
CollidingNames == << <<"a", "7">>, <<"a", "/", "7">> >>

\* C15 (sanitisation collisions): when download_product for n1 has returned
\* Completed and download_product is then called for a different name n2 of
\* equal sanitised name in the same directory, the second invocation issues
\* no network request and writes nothing, the file written for n1 keeps its
\* content, and the second invocation returns AlreadyExists with the path
\* written for n1.
C15_CollisionSkips ==
  ( /\ product_name = [p \in Procs |-> CollidingNames[p]]
    /\ result[1].kind = "Completed" ) =>
    /\ PathExists(files, result[1].path)
    /\ files[result[1].path] = Flatten(arrived[1])
    /\ log[2] = <<>>
    /\ requested[2] = <<>>
    /\ pc[2] = "done" => result[2] = AlreadyExists(result[1].path)

C15_Witness ==
  /\ product_name[1] # product_name[2]
  /\ Sanitize(product_name[1]) = Sanitize(product_name[2])
  /\ result[1].kind = "Completed"
  /\ arrived[1] # <<>>
  /\ pc[2] = "done"
  /\ result[2] = AlreadyExists(result[1].path)

\* the bytes an interrupted earlier transfer of p's product left in the
\* .part file, as found when p was entered
StoredBytes(p) ==
  IF PathExists(entry_files, TempPathOf(FinalPath(p)))
    THEN entry_files[TempPathOf(FinalPath(p))] ELSE <<>>

Opened(p) == \E i \in 1 .. Len(log[p]) : log[p][i] = "open"

\* C16 as stated (resumability): a later request for a product whose
\* interrupted transfer stored N > 0 bytes continues from them: the N bytes
\* stay at the head of the .part file, and of the final file on completion,
\* and the transfer counts from N.
C16_Resumes ==
  \A p \in Invoked :
    (StoredBytes(p) # <<>> /\ Opened(p)) =>
      /\ downloaded[p] >= Len(StoredBytes(p))
      /\ \A f \in {TempPathOf(FinalPath(p)), FinalPath(p)} :
           PathExists(files, f) =>
             /\ Len(files[f]) >= Len(StoredBytes(p))
             /\ SubSeq(files[f], 1, Len(StoredBytes(p))) = StoredBytes(p)

\* C16, amended: a later request for a product whose interrupted transfer
\* stored N > 0 bytes starts again from offset 0: opening the .part file
\* discards the N bytes, the body is received from its first byte and
\* counted from 0, and the .part file, and the final file on completion,
\* hold exactly the chunks this request received.
C16_Restarts ==
  \A p \in Invoked :
    (StoredBytes(p) # <<>> /\ Opened(p)) =>
      /\ downloaded[p] = Len(Flatten(arrived[p]))
      /\ arrived[p] # <<>> => arrived[p][1][1] = ChunkBytes(p, 0, 1)[1]
      /\ PathExists(files, TempPathOf(FinalPath(p))) =>
           files[TempPathOf(FinalPath(p))] = Flatten(arrived[p])
      /\ result[p].kind = "Completed" =>
           files[FinalPath(p)] = Flatten(arrived[p])

C16_Witness ==
  \E p \in Invoked :
    /\ StoredBytes(p) # <<>>
    /\ result[p].kind = "Completed"
    /\ Len(Flatten(arrived[p])) >= 2
    /\ files[FinalPath(p)] = Flatten(arrived[p])

\* the exceptions download_product handles by going on: of the size probe
\* (app.py:185-188) and of the free-space probe inside it (app.py:183-184)
ToleratedFaults == {"head", "disk_usage"}

\* after one of the failures in fatal, invocation p only cleans up and
\* returns Failed; it streams and opens at most once
NoRetryState(fatal) ==
  \A p \in Invoked :
    /\ CountOps(log[p], {"GET"}) <= 1
    /\ CountOps(log[p], {"open"}) <= 1
    /\ fatal[p] # {} =>
         /\ pc[p] \in {"cleanup", "done"}
         /\ pc[p] = "done" => result[p] = Failed

\* after one of the failures in fatal, invocation p issues no request
NoRetryStep(fatal) ==
  \A p \in Invoked : fatal[p] # {} => requested'[p] = requested[p]

\* C17 as stated (no internal retries): the streaming GET is issued at most
\* once and the .part file opened at most once, and after any failure the
\* invocation issues no further network request and returns Failed.
C17_NoRequestAfterAnyFailure ==
  /\ [](NoRetryState(faults))
  /\ [][NoRetryStep(faults)]_vars

\* C17, amended: the streaming GET is issued at most once and the .part file
\* opened at most once, and after any failure other than that of the size
\* probe (the HEAD request or the free-space probe, after which the run goes
\* on to the streaming GET) the invocation issues no further network request
\* and returns Failed.
C17_NoInternalRetry ==
  /\ [](NoRetryState([p \in Procs |-> faults[p] \ ToleratedFaults]))
  /\ [][NoRetryStep([p \in Procs |-> faults[p] \ ToleratedFaults])]_vars

C17_Witness ==
  \E p \in Invoked :
    /\ "head" \in faults[p]
    /\ "rename" \in faults[p]
    /\ CountOps(log[p], {"GET"}) = 1
    /\ CountOps(log[p], {"open"}) = 1
    /\ pc[p] = "done"
    /\ result[p] = Failed

\* C18 as stated (structured failure outcome): a run in which any operation
\* raised, the size probe included, returns (None, False).
C18_EveryExceptionFails ==
  \A p \in Invoked :
    (pc[p] = "done" /\ faults[p] # {}) => result[p] = Failed

\* C18, amended: no exception leaves download_product: a run that is over
\* has returned AlreadyExists, Completed or Failed.  A run in which an
\* operation other than the size probe raised (directory creation, write
\* test, redirect resolution, a redirect without Location, the streaming GET,
\* opening or writing the .part file, reading a chunk, the rename) returns
\* (None, False), also when removing the .part file raised in turn.  An
\* exception of the HEAD request or of the free-space check lets the run go
\* on.
C18_StructuredFailure ==
  \A p \in Invoked :
    /\ result[p] # Propagated
    /\ pc[p] = "done" => result[p].kind \in {"AlreadyExists", "Completed", "Failed"}
    /\ (pc[p] = "done" /\ faults[p] \ ToleratedFaults # {}) => result[p] = Failed

C18_Witness ==
  \E p \in Invoked :
    /\ pc[p] = "done"
    /\ "remove" \in faults[p]
    /\ PathExists(files, TempPathOf(FinalPath(p)))
    /\ result[p] = Failed

\* the place of a position of download_product in its text
Position(label) ==
  CASE label = "ensure_dir" -> 1
    [] label = "clean_name" -> 2
    [] label = "check_existing" -> 3
    [] label = "write_test" -> 4
    [] label = "remove_test" -> 5
    [] label = "resolve" -> 6
    [] label = "head" -> 7
    [] label = "guard" -> 8
    [] label = "get" -> 9
    [] label = "open" -> 10
    [] label = "stream" -> 11
    [] label = "rename" -> 12
    [] label = "cleanup" -> 13
    [] label = "done" -> 14

\* the stage a position belongs to; cleanup and return belong to none
StageOf(label) ==
  CASE label \in {"ensure_dir", "clean_name"} -> "Init"
    [] label = "check_existing" -> "CheckExisting"
    [] label \in {"write_test", "remove_test"} -> "CheckWritePermission"
    [] label = "resolve" -> "ResolveRedirects"
    [] label = "head" -> "ProbeSize"
    [] label = "guard" -> "GuardDiskSpace"
    [] label \in {"get", "open", "stream"} -> "Stream"
    [] label = "rename" -> "Finalize"
    [] label \in {"cleanup", "done"} -> "End"

\* a run that is over has exactly one of the three outcomes, and a run that
\* is not has none
OutcomeState ==
  \A p \in Invoked :
    IF pc[p] = "done"
      THEN result[p].kind \in {"AlreadyExists", "Completed", "Failed"}
      ELSE result[p] = NoResult

\* a step of a run moves forward in the text, staying in its stage or
\* entering a later one, and AlreadyExists is returned from CheckExisting
\* only and Completed from Finalize only
ForwardStep ==
  \A p \in Invoked :
    /\ Position(pc'[p]) >= Position(pc[p])
    /\ result'[p] # result[p] =>
         /\ result[p] = NoResult
         /\ result'[p].kind = "AlreadyExists" => StageOf(pc[p]) = "CheckExisting"
         /\ result'[p].kind = "Completed" => StageOf(pc[p]) = "Finalize"

\* C19 (pipeline order): a run passes through the stages Init, CheckExisting,
\* CheckWritePermission, ResolveRedirects, ProbeSize, GuardDiskSpace, Stream,
\* Finalize in this order, entering each at most once and never going back,
\* and ends in exactly one of AlreadyExists (from CheckExisting only),
\* Completed (from Finalize only) or Failed.
C19_PipelineOrder ==
  /\ [](OutcomeState)
  /\ [][ForwardStep]_vars

C19_Witness ==
  \E p \in Invoked :
    /\ pc[p] = "done"
    /\ result[p].kind = "Completed"
    /\ free_space[p] # None
    /\ chain0[p] = 1
    /\ \E i \in 1 .. Len(log[p]) : log[p][i] = "makedirs"
    /\ arrived[p] # <<>>

\* C20 (redirect resolution result): against a chain of k redirects with a
\* Location header followed by a response of any other status, the run has
\* issued exactly k + 1 requests that do not follow redirects when it leaves
\* the loop, and the HEAD request and the streaming GET go to the Location of
\* the k-th redirect, to the product URL when k = 0.
C20_RedirectResult ==
  \A p \in Invoked :
    /\ Position(pc[p]) \in 7 .. 13 =>
         /\ CountOps(log[p], {"GET_noredirect"}) = chain0[p] + 1
         /\ url[p] = LocationOf(chain0[p])
    /\ \A i \in 1 .. Len(requested[p]) :
         requested[p][i].op \in {"HEAD", "GET"} =>
           /\ requested[p][i].url = LocationOf(chain0[p])
           /\ i = chain0[p] + 2 \/ i = chain0[p] + 3

C20_Witness ==
  \E p \in Invoked :
    /\ chain0[p] = 1
    /\ Len(requested[p]) = 4
    /\ requested[p][3] = [op |-> "HEAD", url |-> LocationOf(1)]
    /\ requested[p][4] = [op |-> "GET", url |-> LocationOf(1)]

\* the size the two probes of a run give: the HEAD response's Content-Length
\* when the HEAD request succeeded with a positive one, else the GET
\* response's, an absent header counting as 0
ProbedSize(head, get) ==
  IF head # None /\ head[1] > 0 THEN head[1] ELSE get[1]

\* C21 (two-phase size probing): after a successful HEAD request total_size
\* is its Content-Length; after a HEAD request that raised it is 0; once the
\* streaming GET has answered it is the HEAD value when that is positive and
\* the GET response's Content-Length otherwise (0 when absent); and a
\* positive HEAD value stays the total to the end of the run.
C21_TwoPhaseSize ==
  \A p \in Invoked :
    /\ pc[p] = "guard" => head_cl[p] # None /\ total_size[p] = head_cl[p][1]
    /\ (pc[p] = "get" /\ "head" \in faults[p]) =>
         head_cl[p] = None /\ total_size[p] = 0
    /\ get_cl[p] # None => total_size[p] = ProbedSize(head_cl[p], get_cl[p])
    /\ (head_cl[p] # None /\ head_cl[p][1] > 0) => total_size[p] = head_cl[p][1]
    /\ \A i \in 1 .. Len(events[p]) :
         (head_cl[p] # None /\ head_cl[p][1] > 0) =>
           events[p][i].total = head_cl[p][1]

C21_Witness ==
  \E p \in Invoked :
    /\ head_cl[p] = Some(0)
    /\ get_cl[p] = Some(2)
    /\ total_size[p] = 2
    /\ pc[p] = "open"

\* the guard ended a run only when the probe answered, the total was known
\* and free < 1.2 * total, and then before the streaming GET
GuardEndedState ==
  \A p \in Invoked :
    status[p] = "Not enough disk space" =>
      /\ free_space[p] # None
      /\ total_size[p] > 0
      /\ 5 * free_space[p][1] < 6 * total_size[p]
      /\ result[p] = Failed
      /\ CountOps(log[p], {"GET"}) = 0

\* the step of the guard goes on to the streaming GET when the probe raised,
\* the total is unknown or free >= 1.2 * total; a HEAD request that raised
\* goes there without the guard
GuardPassStep ==
  \A p \in Invoked :
    /\ ( /\ pc[p] = "guard"
         /\ pc'[p] # "guard"
         /\ \/ "disk_usage" \in faults'[p]
            \/ total_size[p] = 0
            \/ /\ free_space'[p] # None
               /\ 5 * free_space'[p][1] >= 6 * total_size[p] ) =>
         /\ pc'[p] = "get"
         /\ result'[p] = NoResult
    /\ (pc[p] = "head" /\ "head" \in faults'[p]) => pc'[p] = "get"

\* C22 (disk-space guard bypass): when the free-space probe raises, or the
\* total size is unknown (0), or free >= 1.2 * total, the guard does not end
\* the run: the run goes on to the Stream stage, where it can reach
\* Completed.
C22_GuardBypass ==
  /\ [](GuardEndedState)
  /\ [][GuardPassStep]_vars

C22_Witness ==
  \E p \in Invoked :
    /\ "disk_usage" \in faults[p]
    /\ free_space[p] = None
    /\ total_size[p] > 0
    /\ result[p].kind = "Completed"

\* the value of downloaded after the i-th non-empty chunk of invocation p
DownloadedAfter(p, i) == Len(Flatten(SubSeq(arrived[p], 1, i)))

\* the progress events emitted for the chunk that brought downloaded to d
EventsAt(p, d) == {j \in 1 .. Len(events[p]) : events[p][j].downloaded = d}

\* C25 (progress throttling rule): download_product emits a progress event
\* for a chunk exactly when the whole part of the percentage after that chunk
\* is even or downloaded equals the total, and then one event.  So with a
\* known total the chunk that brings downloaded to the total emits an event,
\* and with an unknown total every chunk emits an event of percentage 0.
C25_Throttling ==
  \A p \in Invoked :
    \A i \in 1 .. Len(arrived[p]) :
      LET d == DownloadedAfter(p, i)
          t == total_size[p]
      IN /\ Cardinality(EventsAt(p, d)) <= 1
         /\ t > 0 =>
              ( EventsAt(p, d) # {} <=> (((100 * d) \div t) % 2 = 0 \/ d = t) )
         /\ (t > 0 /\ d = t) => EventsAt(p, d) # {}
         /\ t = 0 =>
              /\ EventsAt(p, d) # {}
              /\ \A j \in EventsAt(p, d) : IntPart(events[p][j].percent) = 0
                                           /\ events[p][j].percent.num = 0

C25_Witness ==
  \E p \in Invoked :
    /\ total_size[p] = 3
    /\ Len(arrived[p]) = 3
    /\ Len(events[p]) = 1
    /\ events[p][1].downloaded = total_size[p]

\* C29 (mirror equals file): while a run streams with an in-memory buffer,
\* the buffer holds as many bytes as downloaded counts, the bytes of the
\* .part file; and the copy a Completed outcome carries, when not None, is
\* byte for byte the file at the final path.
C29_MirrorEqualsFile ==
  \A p \in Invoked :
    /\ (browser_data[p] # None /\ pc[p] \in {"stream", "rename"}) =>
         /\ Len(browser_data[p][1]) = downloaded[p]
         /\ browser_data[p][1] = files[TempPathOf(FinalPath(p))]
    /\ (result[p].kind = "Completed" /\ result[p].copy # None) =>
         /\ PathExists(files, FinalPath(p))
         /\ result[p].copy[1] = files[FinalPath(p)]

C29_Witness ==
  \E p \in Invoked :
    /\ result[p].kind = "Completed"
    /\ result[p].copy # None
    /\ Len(arrived[p]) >= 2
    /\ Len(result[p].copy[1]) >= 3
    /\ result[p].copy[1] = files[FinalPath(p)]

\* a step of the worker thread
WorkerStep ==
  \E p \in Procs :
    \/ WorkerStart(p)
    \/ WorkerResolve(p)
    \/ WorkerGet(p)
    \/ WorkerOpen(p)
    \/ WorkerChunk(p)
    \/ WorkerChunkRaise(p)
    \/ WorkerEnd(p)

\* the worker thread and main's loop under fair scheduling: the thread is
\* started (download_handler.py:59) and keeps running while it has a step to
\* take, its chain and its stream being finite; main's get returns a message
\* that is on the queue (download_handler.py:64)
HandlerFairSpec ==
  /\ InitHandler
  /\ [][NextHandler]_vars
  /\ WF_vars(WorkerStep)
  /\ WF_vars(SupGet)

TerminalLines == {i \in 1 .. Len(printed) : printed[i].status \in TerminalStatuses}

\* the loop has ended only with one terminal line printed, the last line
ExitState ==
  sup_pc = "exit" =>
    /\ Cardinality(TerminalLines) = 1
    /\ Len(printed) \in TerminalLines

\* the loop ends only by taking a terminal message off the queue; a message
\* that leaves the queue is printed; and on the empty queue the loop neither
\* ends nor prints
LoopStep ==
  /\ (sup_pc = "loop" /\ sup_pc' = "exit") =>
       /\ progress_queue # <<>>
       /\ Head(progress_queue).status \in TerminalStatuses
  /\ progress_queue # <<>> =>
       \/ /\ progress_queue' = Tail(progress_queue)
          /\ printed' = Append(printed, JsonLine(Head(progress_queue)))
       \/ /\ Len(progress_queue') >= Len(progress_queue)
          /\ SubSeq(progress_queue', 1, Len(progress_queue)) = progress_queue
          /\ printed' = printed
  /\ progress_queue = <<>> => (sup_pc' = sup_pc /\ printed' = printed)

\* C26 (supervisor liveness, download_handler.main): under fair scheduling
\* and with a finite redirect chain and response stream, main's loop
\* eventually ends, having printed exactly one terminal line ('complete' or
\* 'error'), its last; it ends only by dequeuing a terminal message, and a
\* timeout on the empty queue neither ends it nor loses a message.
C26_SupervisorLiveness ==
  /\ <>(sup_pc = "exit")
  /\ [](ExitState)
  /\ [][LoopStep]_vars

C26_Witness ==
  /\ sup_pc = "exit"
  /\ printed[Len(printed)].status = "error"
  /\ Len(printed) >= 2
  /\ chain0[1] = LongChain


(***************************************************************************)
(* The backend service (backend.py:123-223): POST /download writes the     *)
(* entry and creates the task, the event loop runs the task, and           *)
(* GET /download/status/{download_id} returns the entry.  The handlers and *)
(* the task are coroutines of one event loop: one runs at a time, and the  *)
(* loop takes the next one when the running one awaits or ends.            *)
(* download_worker has no await (backend.py:160-223: requests is a         *)
(* blocking client), so it holds the loop from its first statement to its  *)
(* last.                                                                   *)
(***************************************************************************)
HttpError == [kind |-> "http_500", path |-> <<>>, copy |-> None]

\* the event loop has no coroutine running
LoopIdle == running = 0

\* backend.py:124-151  download
PostDownload(p) ==
  /\ pc[p] = "b_post"
  /\ LoopIdle
  /\ \/ /\ IF dirExists
             THEN UNCHANGED <<dirExists, log>>
             ELSE dirExists' = TRUE /\ Did(p, "makedirs")
        /\ download_statuses' = Upd(download_statuses, p, Some(StartedStatus))
        /\ pc' = Upd(pc, p, "b_ready")
        /\ UNCHANGED <<result, faults>>
     \/ /\ ~dirExists
        /\ Raised(p, "makedirs")
        /\ pc' = Upd(pc, p, "done")
        /\ result' = Upd(result, p, HttpError)
        /\ UNCHANGED <<dirExists, log, download_statuses>>
  /\ UNCHANGED <<files, nameVars, netVars, sizeVars, streamVars, status, supVars,
                 loopVars, uiVars>>

\* backend.py:141  asyncio.create_task: the loop starts the task once the
\* handler that created it is over
TaskStart(p) ==
  /\ pc[p] = "b_ready"
  /\ LoopIdle
  /\ running' = p
  /\ pc' = Upd(pc, p, "w_start")
  /\ UNCHANGED <<fsVars, nameVars, netVars, sizeVars, streamVars, result, status,
                 log, faults, supVars, download_statuses, observed, uiVars>>

\* backend.py:153-158  get_download_status, for a known download_id
GetStatus(p) ==
  /\ LoopIdle
  /\ download_statuses[p] # None
  /\ observed' = observed \cup {StatusOf(p)}
  /\ UNCHANGED <<fsVars, nameVars, netVars, sizeVars, streamVars, pc, result,
                 status, log, faults, supVars, download_statuses, running,
                 uiVars>>

InitBackend ==
  InitWith(ProductNames, Chains, {"backend"}, "b_post") /\ NoSupervisor

NextBackend ==
  \E p \in Procs :
    \/ PostDownload(p)
    \/ TaskStart(p)
    \/ GetStatus(p)
    \/ WorkerStart(p)
    \/ WorkerResolve(p)
    \/ WorkerGet(p)
    \/ WorkerOpen(p)
    \/ WorkerChunk(p)
    \/ WorkerChunkRaise(p)
    \/ WorkerEnd(p)

\* one POST /download, its task, and status requests at any time
BackendSpec == InitBackend /\ [][NextBackend]_vars

\* the task of p is between two chunks, its entry showing a part of the file
BetweenChunks(p) ==
  /\ variant[p] = "backend"
  /\ pc[p] = "w_stream"
  /\ StatusOf(p).status = "progress"
  /\ 0 < StatusOf(p).downloaded
  /\ StatusOf(p).downloaded < StatusOf(p).total_size

\* C23 (cooperative yielding): while a backend download_worker task is
\* between two chunks of its stream, its entry showing status 'progress' with
\* 0 < downloaded < total_size, the event loop can run a
\* GET /download/status request, which returns this entry.
C23_YieldBetweenChunks ==
  \A p \in Procs : BetweenChunks(p) => ENABLED GetStatus(p)

\* what holds instead: no status request ever returns a 'progress' entry
NoProgressObserved == \A r \in observed : r.status # "progress"

\* an update of an entry does not lower its 'downloaded' field
DownloadedStep ==
  \A p \in Procs :
    (download_statuses[p] # None /\ download_statuses'[p] # None)
      => download_statuses'[p][1].downloaded >= StatusOf(p).downloaded

\* C24 (monotone byte count): the 'downloaded' field of an entry never
\* decreases from one update to the next, the 'complete' update included,
\* whether the total size is known or 0.
C24_MonotoneDownloaded == [][DownloadedStep]_vars


\* the task and the event loop under fair scheduling: the loop starts a
\* created task (backend.py:141), and the task goes on while it has a step
\* to take, its chain and its stream being finite
BackendFairSpec ==
  /\ InitBackend
  /\ [][NextBackend]_vars
  /\ WF_vars(\E p \in Procs : TaskStart(p))
  /\ WF_vars(WorkerStep)

LiveStatuses == {"started", "progress"}

\* one step of an entry's life
LifecycleStep ==
  \A p \in Procs :
    LET a == download_statuses[p]
        b == download_statuses'[p]
    IN a # b =>
         IF a = None
           THEN b = Some(StartedStatus)
           ELSE /\ b # None
                /\ a[1].status \in LiveStatuses
                /\ b[1].status \in {"progress"} \cup TerminalStatuses
                     \/ /\ b[1].status = "started"
                        /\ b[1] = WithTotalSize(a[1], b[1].total_size)
                /\ b[1].status = "error" =>
                     /\ b[1].progress = a[1].progress
                     /\ b[1].downloaded = a[1].downloaded
                     /\ b[1].total_size = a[1].total_size

\* C27 (backend status lifecycle): the status of an entry is 'started' when
\* POST /download writes it, then 'progress' zero or more times, then
\* 'complete' or 'error', which it reaches and after which the entry is
\* never modified; the 'error' update leaves progress, downloaded and
\* total_size as they were.
C27_StatusLifecycle ==
  /\ [][LifecycleStep]_vars
  /\ \A p \in Procs :
       (download_statuses[p] # None) ~>
         (download_statuses[p] # None /\ StatusOf(p).status \in TerminalStatuses)

\* the task failed in the middle of its stream, and the entry keeps the
\* figures of the last chunk
C27_Witness ==
  \E p \in Procs :
    /\ variant[p] = "backend"
    /\ pc[p] = "done"
    /\ download_statuses[p] # None
    /\ StatusOf(p).status = "error"
    /\ StatusOf(p).downloaded > 0
    /\ StatusOf(p).total_size > 0
    /\ "chunk" \in faults[p]


(***************************************************************************)
(* The subprocess UI (sentinel_downloader.py:246-328), for one product id. *)
(* Each run of the script that reaches the product's tab executes lines    *)
(* 246-328 from the top; the widgets' values are inputs of the run: a      *)
(* button that is rendered returns True or False.  The subprocess is       *)
(* download_handler.py: main and its worker thread.                        *)
(***************************************************************************)
MaxAttempts == 2

\* sentinel_downloader.py:248-253
InitialDownloadState ==
  [complete |-> FALSE, error |-> FALSE, started |-> FALSE,
   progress |-> [num |-> 0, den |-> 1], path |-> None]

\* sentinel_downloader.py:258
ShowDownloadUnlessComplete(st) == ~st.complete
ShowDownload(st) == ~st.started /\ ~st.complete

\* sentinel_downloader.py:313, 320: the branch that offers "Retry Download"
ShowRetry(st) == ~st.complete /\ st.error

\* sentinel_downloader.py:323-325
RetryResetError(st) == [st EXCEPT !.error = FALSE]
RetryReset(st) ==
  [st EXCEPT !.error = FALSE, !.started = FALSE, !.progress = [num |-> 0, den |-> 1]]

\* sentinel_downloader.py:298-308: one line of the subprocess's output
ApplyLine(st, line) ==
  IF line.status = "progress" THEN [st EXCEPT !.progress = line.progress]
  ELSE IF line.status = "complete"
    THEN [st EXCEPT !.complete = TRUE, !.path = Some(line.path)]
  ELSE [st EXCEPT !.error = TRUE]

\* sentinel_downloader.py:271-285  subprocess.Popen: a new process runs
\* download_handler.main, which starts its worker (download_handler.py:41-59)
Popen ==
  /\ process' = Some(Len(launches) + 1)
  /\ launches' = Append(launches, retries)
  /\ read_pos' = 0
  /\ pc' = Upd(pc, 1, "w_start")
  /\ sup_pc' = "loop"
  /\ progress_queue' = <<>>
  /\ printed' = <<>>
  /\ entry_files' = files
  /\ output_path' = Upd(output_path, 1, <<>>)
  /\ url' = Upd(url, 1, ProductUrl)
  /\ chain' = Upd(chain, 1, chain0[1])
  /\ requested' = Upd(requested, 1, <<>>)
  /\ total_size' = Upd(total_size, 1, 0)
  /\ downloaded' = Upd(downloaded, 1, 0)
  /\ chunks_read' = Upd(chunks_read, 1, 0)
  /\ events' = Upd(events, 1, <<>>)
  /\ arrived' = Upd(arrived, 1, <<>>)
  /\ result' = Upd(result, 1, NoResult)
  /\ status' = Upd(status, 1, "")
  /\ log' = Upd(log, 1, <<>>)
  /\ faults' = Upd(faults, 1, {})

\* no process is started in this step
NoPopen ==
  UNCHANGED <<process, launches, read_pos, pc, sup_pc, progress_queue, printed,
              entry_files, output_path, url, chain, requested, total_size,
              downloaded, chunks_read, events, arrived, result, status, log,
              faults>>

\* sentinel_downloader.py:246-290: the entry is created if missing, the
\* Download button is offered and, pressed, starts the subprocess
RunTab ==
  /\ ui_pc = "idle"
  /\ LET st == IF download_state = None THEN InitialDownloadState
                                       ELSE download_state[1]
     IN \E clicked \in (IF Len(launches) < MaxAttempts THEN BOOLEAN ELSE {FALSE}) :
          IF ShowDownload(st) /\ clicked
            THEN \/ /\ ~dirExists          \* os.makedirs raises: the run ends
                    /\ download_state' = Some(st)
                    /\ ui_pc' = "idle"
                    /\ NoPopen
                    /\ UNCHANGED dirExists
                 \/ /\ dirExists' = TRUE
                    /\ download_state' = Some([st EXCEPT !.started = TRUE])
                    /\ \/ Popen /\ ui_pc' = "reading"
                       \/ NoPopen /\ ui_pc' = "idle"  \* Popen raises
            ELSE /\ download_state' = Some(st)
                 /\ ui_pc' = IF st.started /\ process # None
                               THEN "reading" ELSE "show"
                 /\ NoPopen
                 /\ UNCHANGED dirExists
  /\ UNCHANGED <<files, variant, chain0, product_name, clean_name, free_space,
                 browser_data, probeVars, retries, download_statuses, loopVars>>

\* sentinel_downloader.py:293, 296-310: readline returns a line
ReadLine ==
  /\ ui_pc = "reading"
  /\ read_pos < Len(printed)
  /\ read_pos' = read_pos + 1
  /\ download_state' = Some(ApplyLine(download_state[1], printed[read_pos + 1]))
  /\ UNCHANGED <<fsVars, nameVars, netVars, sizeVars, streamVars, pc, result,
                 status, log, faults, supVars, download_statuses, loopVars,
                 process, ui_pc, retries, launches>>

\* sentinel_downloader.py:293-295: readline returns '' once the subprocess
\* has ended and its output has been read
ReadEof ==
  /\ ui_pc = "reading"
  /\ read_pos = Len(printed)
  /\ sup_pc = "exit"
  /\ ui_pc' = "show"
  /\ UNCHANGED <<fsVars, nameVars, netVars, sizeVars, streamVars, pc, result,
                 status, log, faults, supVars, download_statuses, loopVars,
                 download_state, process, read_pos, retries, launches>>

\* sentinel_downloader.py:313-328: the status is shown, with the Retry
\* button after an error; the run is over
ShowStatus ==
  /\ ui_pc = "show"
  /\ ui_pc' = "idle"
  /\ \E clicked \in BOOLEAN :
       IF ShowRetry(download_state[1]) /\ clicked
         THEN /\ download_state' = Some(RetryReset(download_state[1]))
              /\ retries' = retries + 1
         ELSE UNCHANGED <<download_state, retries>>
  /\ UNCHANGED <<fsVars, nameVars, netVars, sizeVars, streamVars, pc, result,
                 status, log, faults, supVars, download_statuses, loopVars,
                 process, read_pos, launches>>

\* the session has no entry for the product and no subprocess
InitUi ==
  InitWith({<<"a", "7">>}, 0 .. MaxRedirects, {"download_handler"}, "idle")
    /\ NoSupervisor

NextUi ==
  \/ RunTab
  \/ ReadLine
  \/ ReadEof
  \/ ShowStatus
  \/ \E p \in Procs :
       \/ WorkerStart(p)
       \/ WorkerResolve(p)
       \/ WorkerGet(p)
       \/ WorkerOpen(p)
       \/ WorkerChunk(p)
       \/ WorkerChunkRaise(p)
       \/ WorkerEnd(p)
  \/ SupGet
  \/ SupEmpty

\* the runs of the script on one product's tab, and the subprocesses they
\* start
UiSpec == InitUi /\ [][NextUi]_vars


\* a step that starts a subprocess is taken with started and complete False
\* (or with no entry yet, which line 248 creates so), and sets started
LaunchStep ==
  process' # process =>
    /\ download_state # None => ShowDownload(download_state[1])
    /\ download_state'[1].started

\* no step starts a subprocess once complete is True
NoLaunchOnceComplete ==
  (download_state # None /\ download_state[1].complete) => process' = process

\* no two subprocesses were started after the same number of Retry resets
OnePerReset ==
  \A i, j \in 1 .. Len(launches) : i # j => launches[i] # launches[j]

\* C28 (single launch per product): a download_handler subprocess is started
\* only in a state where started and complete are False, and starting it
\* sets started; so at most one subprocess is started between two Retry
\* resets, and none once complete is True.
C28_SingleLaunch ==
  /\ [][LaunchStep /\ NoLaunchOnceComplete]_vars
  /\ [](OnePerReset)

\* a second subprocess, started after a Retry reset, has completed
C28_Witness ==
  /\ Len(launches) = 2
  /\ retries = 1
  /\ download_state # None
  /\ download_state[1].complete
  /\ download_state[1].started

\* a step of the entry that clears started or error is the Retry reset, which
\* is taken with error True and complete False and resets error, started and
\* progress
RetryStep ==
  download_state # None =>
    LET a == download_state[1]
        b == download_state'[1]
    IN /\ ((a.error /\ ~b.error) \/ (a.started /\ ~b.started))
            => retries' = retries + 1
       /\ retries' # retries =>
            /\ a.error /\ ~a.complete
            /\ ~b.error /\ ~b.started /\ b.progress = [num |-> 0, den |-> 1]

\* the terminal flags exclude each other and each implies started
FlagsState ==
  download_state # None =>
    /\ ~(download_state[1].complete /\ download_state[1].error)
    /\ download_state[1].complete => download_state[1].started
    /\ download_state[1].error => download_state[1].started

\* C30 (mutually exclusive terminal flags): in every state of the product's
\* entry, fed by download_handler's output, complete and error are never
\* both True and each implies started; Retry, offered only when error is
\* True and complete is False, resets error and started to False and
\* progress to 0.
C30_TerminalFlags ==
  /\ [](FlagsState)
  /\ [][RetryStep]_vars

\* Retry has reset the entry after a subprocess that reported progress and
\* then an error
C30_Witness ==
  /\ retries = 1
  /\ Len(launches) = 1
  /\ ui_pc = "idle"
  /\ download_state = Some(InitialDownloadState)
  /\ \E i \in 1 .. Len(printed) :
       printed[i].status = "progress" /\ printed[i].progress.num > 0
  /\ printed[Len(printed)].status = "error"

====
